---- MODULE Spec2Model ----
(***************************************************************************)
(* Model of the Canopen Tango device (Canopen.py): the registry of dynamic *)
(* attributes, the address resolution of sdo(), the read/write dispatch    *)
(* and init_device.  Strings are sequences of one-character strings, so    *)
(* that startswith, split, isdigit and int() are computed character by     *)
(* character as Python computes them.                                      *)
(***************************************************************************)
EXTENDS Integers, Sequences, FiniteSets, TLC

(***************************************************************************)
(* Bounds                                                                  *)
(***************************************************************************)
\* longest free-form address string enumerated by the resolver specification
MaxLen == 4
\* longest main-index numeral of an enumerated "0x<main>#<sub>" address
MaxMainLen == 2
\* longest sub-index numeral (after an optional "0x") of such an address
MaxSubLen == 2
\* attribute values written are 1..MaxVal
MaxVal == 2
\* longest declarative attribute list handed to init_device
MaxList == 2

\* add_dynamic_attribute calls in progress at the same time
MaxCalls == 2

(***************************************************************************)
(* Characters and strings                                                  *)
(***************************************************************************)
\* two decimal digits, a hexadecimal letter, a letter that is no digit in
\* any base up to 16, and the two characters the grammar looks for
Alphabet == {"0", "1", "a", "z", "x", "#"}
NumeralChars == {"0", "1", "a", "z"}

Str(n, chars) == UNION {[1..k -> chars] : k \in 0..n}

\* str.isdigit() on one character
IsDecDigit(c) == c \in {"0", "1", "2", "3", "4", "5", "6", "7", "8", "9"}

\* value of one character as a digit of int(s, 16); -1 when it is none
HexDigitVal(c) ==
    CASE c = "0" -> 0 [] c = "1" -> 1 [] c = "2" -> 2 [] c = "3" -> 3
      [] c = "4" -> 4 [] c = "5" -> 5 [] c = "6" -> 6 [] c = "7" -> 7
      [] c = "8" -> 8 [] c = "9" -> 9 [] c = "a" -> 10 [] c = "b" -> 11
      [] c = "c" -> 12 [] c = "d" -> 13 [] c = "e" -> 14 [] c = "f" -> 15
      [] OTHER -> -1

\* str.startswith("0x")
StartsWith0x(s) == Len(s) >= 2 /\ s[1] = "0" /\ s[2] = "x"

\* "#" in s
ContainsHash(s) == \E i \in 1..Len(s) : s[i] = "#"

\* str.isdigit(): at least one character and every character a digit
IsDigitStr(s) == Len(s) > 0 /\ \A i \in 1..Len(s) : IsDecDigit(s[i])

\* s.split("#"): the list of the pieces between the separators
RECURSIVE SplitHash(_)
SplitHash(s) ==
    IF ~ContainsHash(s) THEN <<s>>
    ELSE LET i == CHOOSE j \in 1..Len(s) :
                     s[j] = "#" /\ \A k \in 1..(j - 1) : s[k] # "#"
         IN  <<SubSeq(s, 1, i - 1)>> \o SplitHash(SubSeq(s, i + 1, Len(s)))

\* positional value of a string of digits in the given base
RECURSIVE DigitsVal(_, _)
DigitsVal(s, base) ==
    IF Len(s) = 0 THEN 0
    ELSE DigitsVal(SubSeq(s, 1, Len(s) - 1), base) * base + HexDigitVal(s[Len(s)])

\* the digits int(s, 16) reads: an optional "0x" prefix is skipped
HexBody(s) == IF StartsWith0x(s) THEN SubSeq(s, 3, Len(s)) ELSE s

\* int(s, 16) raises ValueError unless the body is a non-empty hex numeral
HexOk(s) ==
    /\ Len(HexBody(s)) > 0
    /\ \A i \in 1..Len(HexBody(s)) : HexDigitVal(HexBody(s)[i]) >= 0

\* int(s, 16)
IntHex(s) == DigitsVal(HexBody(s), 16)

\* int(s) of a string for which isdigit() holds
IntDec(s) == DigitsVal(s, 10)

(***************************************************************************)
(* Keys of node.sdo[...]: Python ints and Python strings never compare     *)
(* equal, so a key carries its type.                                       *)
(***************************************************************************)
IntKey(n) == [t |-> "int", n |-> n, s |-> <<>>]
StrKey(s) == [t |-> "str", n |-> 0, s |-> s]

\* outcomes of sdo(name): the lookup it returns, or the exception it raises
Lookup(rule, path) == [ok |-> TRUE, err |-> "", rule |-> rule, path |-> path]
Raise(err) == [ok |-> FALSE, err |-> err, rule |-> "", path |-> <<>>]
NoRes == [ok |-> FALSE, err |-> "none", rule |-> "", path |-> <<>>]

\* sdo() with the hexadecimal branch entered only for a well-formed numeral,
\* so that a malformed "0x" string goes on to the decimal and named rules
ResolveIndexFallThrough(indexName) ==
    IF StartsWith0x(indexName) /\ ContainsHash(indexName)
       /\ Len(SplitHash(indexName)) = 2
       /\ HexOk(SplitHash(indexName)[1]) /\ HexOk(SplitHash(indexName)[2])
    THEN Lookup("hexsub", <<StrKey(SplitHash(indexName)[1]),
                            IntKey(IntHex(SplitHash(indexName)[2]))>>)
    ELSE IF StartsWith0x(indexName) /\ ~ContainsHash(indexName)
            /\ HexOk(indexName)
         THEN Lookup("hex", <<IntKey(IntHex(indexName))>>)
         ELSE IF IsDigitStr(indexName)
              THEN Lookup("dec", <<IntKey(IntDec(indexName))>>)
              ELSE Lookup("named", <<StrKey(indexName)>>)

\* sdo() with the all-digit address parsed in base 16 like the "0x" ones
ResolveIndexDigitsBase16(indexName) ==
    IF StartsWith0x(indexName)
    THEN IF ContainsHash(indexName)
         THEN LET parts == SplitHash(indexName)
              IN  IF Len(parts) # 2 THEN Raise("ValueError")
                  ELSE IF ~HexOk(parts[1]) \/ ~HexOk(parts[2])
                       THEN Raise("ValueError")
                       ELSE Lookup("hexsub",
                                <<StrKey(parts[1]), IntKey(IntHex(parts[2]))>>)
         ELSE IF ~HexOk(indexName) THEN Raise("ValueError")
              ELSE Lookup("hex", <<IntKey(IntHex(indexName))>>)
    ELSE IF IsDigitStr(indexName)
         THEN Lookup("dec", <<IntKey(IntHex(indexName))>>)
         ELSE Lookup("named", <<StrKey(indexName)>>)

\* the lookup sdo() issues for the address string of a registry entry
ResolveIndex(indexName) ==
    IF StartsWith0x(indexName)
    THEN IF ContainsHash(indexName)
         THEN LET parts == SplitHash(indexName)
              IN  IF Len(parts) # 2 THEN Raise("ValueError")
                  ELSE IF ~HexOk(parts[1]) \/ ~HexOk(parts[2])
                       THEN Raise("ValueError")
                       ELSE Lookup("hexsub",
                                <<StrKey(parts[1]), IntKey(IntHex(parts[2]))>>)
         ELSE IF ~HexOk(indexName) THEN Raise("ValueError")
              ELSE Lookup("hex", <<IntKey(IntHex(indexName))>>)
    ELSE IF IsDigitStr(indexName)
         THEN Lookup("dec", <<IntKey(IntDec(indexName))>>)
         ELSE Lookup("named", <<StrKey(indexName)>>)

\* sdo(name) with the registry read through a default address instead of
\* dynamic_attribute_indices[name]
sdoDefaultAddress(registry, name) ==
    IF name \notin DOMAIN registry THEN ResolveIndex(<<"z">>)
    ELSE ResolveIndex(registry[name])

\* sdo(name): the registry lookup, then the resolution of the address
sdo(registry, name) ==
    IF name \notin DOMAIN registry THEN Raise("KeyError")
    ELSE ResolveIndex(registry[name])

(***************************************************************************)
(* The node behind self.node                                               *)
(***************************************************************************)
\* MockSdoEntry.raw before any assignment (Python None)
NoneVal == 0

Values == 1..MaxVal

\* the object dictionary the tests build, scaled to the indices the address
\* alphabet can spell: two variables and a record with three members
ODObjects ==
    { [index |-> 16, name |-> <<"z", "a">>, kind |-> "var", subs |-> {}],
      [index |-> 10, name |-> <<"z">>, kind |-> "var", subs |-> {}],
      [index |-> 1, name |-> <<"z", "z">>, kind |-> "record",
       subs |-> {0, 1, 10}] }

\* the object a first-level key selects in the object dictionary
ODMatches(k) ==
    {o \in ODObjects : IF k.t = "int" THEN o.index = k.n ELSE o.name = k.s}

Cell(path) == [ok |-> TRUE, err |-> "", cell |-> path]
NoCell(err) == [ok |-> FALSE, err |-> err, cell |-> <<>>]

\* MockSdo / MockSdoEntry: every key is created on first use and every
\* entry, at either level, has its own raw
MockGetItem(path) == Cell(path)

\* RemoteNode.sdo[k1] and RemoteNode.sdo[k1][k2] followed by .raw: the
\* variable reached, named by its numeric index and sub-index
RemoteGetItem(path) ==
    IF ODMatches(path[1]) = {} THEN NoCell("KeyError")
    ELSE LET o == CHOOSE x \in ODMatches(path[1]) : TRUE
         IN  IF Len(path) = 1
             THEN IF o.kind = "var" THEN Cell(<<IntKey(o.index)>>)
                  ELSE NoCell("AttributeError")
             ELSE IF o.kind # "record" THEN NoCell("TypeError")
                  ELSE IF path[2].t = "int" /\ path[2].n \in o.subs
                       THEN Cell(<<IntKey(o.index), path[2]>>)
                       ELSE NoCell("KeyError")

NodeGetItem(kind, path) ==
    IF kind = "None" THEN NoCell("AttributeError")
    ELSE IF kind = "mock" THEN MockGetItem(path)
    ELSE RemoteGetItem(path)

\* .raw read: the mock answers None for an entry never assigned, the remote
\* node aborts the transfer for an object that holds no data
RawGet(kind, st, cell) ==
    IF cell \in DOMAIN st THEN [ok |-> TRUE, err |-> "", value |-> st[cell]]
    ELSE IF kind = "mock" THEN [ok |-> TRUE, err |-> "", value |-> NoneVal]
    ELSE [ok |-> FALSE, err |-> "SdoAbortedError", value |-> NoneVal]

(***************************************************************************)
(* State                                                                   *)
(***************************************************************************)
VARIABLES
    state,                      \* DevState of the device
    network,                    \* self.network
    node,                       \* self.node: the kind of node object held
    dynamic_attribute_indices,  \* Canopen.dynamic_attribute_indices
    attributes,                 \* attributes handed to add_attribute
    store,                      \* the raw values the node holds
    adding,                     \* add_dynamic_attribute calls after line 48
    last                        \* what the last call did and returned

vars == <<state, network, node, dynamic_attribute_indices, attributes,
          store, adding, last>>

Names == {"n1", "n2"}

\* Python dict: the empty dict and item assignment
EmptyMap == [k \in {} |-> k]
Put(m, k, v) == [x \in (DOMAIN m) \cup {k} |-> IF x = k THEN v ELSE m[x]]

\* one element of the decoded init_dynamic_attributes list
Item(shape, name, register, min_value, max_value) ==
    [shape |-> shape, name |-> name, register |-> register,
     min_value |-> min_value, max_value |-> max_value]

\* the value of the init_dynamic_attributes property
Payload(kind, items) == [kind |-> kind, items |-> items]

\* the record of a call: its arguments, the exception that left it (exc),
\* the lookup sdo() issued (res) and the value set on the attribute (value)
NoCall ==
    [op |-> "none", name |-> "", index |-> <<>>, min_value |-> "",
     max_value |-> "", connectOk |-> TRUE, nodeOk |-> TRUE,
     payload |-> Payload("empty", <<>>), value |-> NoneVal, exc |-> "",
     res |-> NoRes, type_name |-> "", ret |-> ""]

Obs(op, name, value, exc, res) ==
    [NoCall EXCEPT !.op = op, !.name = name, !.value = value, !.exc = exc,
                   !.res = res]

Init ==
    /\ state = "UNKNOWN"
    /\ network = "None"
    /\ node \in {"None", "mock", "remote"}
    /\ dynamic_attribute_indices = EmptyMap
    /\ attributes = EmptyMap
    /\ store = EmptyMap
    /\ adding = {}
    /\ last = NoCall

(***************************************************************************)
(* add_dynamic_attribute                                                   *)
(***************************************************************************)
\* the UserDefaultAttrProp the command builds: "" is a limit never set
DefaultProps(min_value, max_value) ==
    [min_value |-> IF min_value # "" /\ min_value # max_value
                   THEN min_value ELSE "",
     max_value |-> IF max_value # "" /\ min_value # max_value
                   THEN max_value ELSE ""]

\* the registry after a command that assigns a new dict holding its one
\* entry instead of storing the item into the dict
AddedIndicesReplaced(reg, name, index) ==
    IF index = <<>> THEN reg ELSE Put(EmptyMap, name, index)

\* the registry after a command that keeps the entry a name already has
AddedIndicesKeepFirst(reg, name, index) ==
    IF index = <<>> \/ name \in DOMAIN reg THEN reg ELSE Put(reg, name, index)

\* the registry after a command that registers whatever address it is given
AddedIndicesUnguarded(reg, name, index) == Put(reg, name, index)

\* the registry and the framework's attributes after the command
AddedIndices(reg, name, index) ==
    IF index = <<>> THEN reg ELSE Put(reg, name, index)

\* the framework's attributes if the guard of line 32 came after add_attribute
AddedAttributesBeforeGuard(attrs, name, index, min_value, max_value) ==
    Put(attrs, name, DefaultProps(min_value, max_value))

AddedAttributes(attrs, name, index, min_value, max_value) ==
    IF index = <<>> THEN attrs
    ELSE Put(attrs, name, DefaultProps(min_value, max_value))

add_dynamic_attribute(name, index, min_value, max_value) ==
    /\ dynamic_attribute_indices' =
           AddedIndices(dynamic_attribute_indices, name, index)
    /\ attributes' =
           AddedAttributes(attributes, name, index, min_value, max_value)
    /\ last' = [NoCall EXCEPT !.op = "add", !.name = name, !.index = index,
                               !.min_value = min_value,
                               !.max_value = max_value]
    /\ UNCHANGED <<adding, state, network, node, store>>

\* add_dynamic_attribute called on another instance of the class in the same
\* process: self.dynamic_attribute_indices is the dict of the class attribute
\* of line 14 on every instance (no instance ever assigns the attribute), so
\* line 49 stores into the one dict all instances read; the attribute itself
\* is added to the other device
peer_add_dynamic_attribute(name, index) ==
    /\ dynamic_attribute_indices' =
           AddedIndices(dynamic_attribute_indices, name, index)
    /\ last' = [NoCall EXCEPT !.op = "peer_add", !.name = name,
                              !.index = index]
    /\ UNCHANGED <<adding, state, network, node, attributes, store>>

(***************************************************************************)
(* add_dynamic_attribute in two steps, for calls that run concurrently     *)
(* with other calls                                                        *)
(***************************************************************************)
\* a call between line 48 and line 49
AddCall(name, index) == [name |-> name, index |-> index]

\* the calls past line 48 if an exception of add_attribute were swallowed
AddingAfterSwallowed(calls, name, index, accepted) ==
    IF index = <<>> THEN calls ELSE calls \cup {AddCall(name, index)}

\* the calls past line 48 after this one ran lines 32-48: none is added if
\* the call returned at line 33 or add_attribute raised
AddingAfter(calls, name, index, accepted) ==
    IF index = <<>> \/ ~accepted THEN calls
    ELSE calls \cup {AddCall(name, index)}

\* lines 32-48: the guard, the attribute, and the framework's add_attribute,
\* which accepts the attribute with its callbacks or raises
add_attribute_step(name, index, accepted) ==
    /\ Cardinality(AddingAfter(adding, name, index, accepted)) <= MaxCalls
    /\ adding' = AddingAfter(adding, name, index, accepted)
    /\ attributes' = IF accepted
                     THEN AddedAttributes(attributes, name, index, "", "")
                     ELSE attributes
    /\ last' = [NoCall EXCEPT
                  !.op = "add_attribute", !.name = name, !.index = index,
                  !.exc = IF index # <<>> /\ ~accepted THEN "DevFailed"
                          ELSE ""]
    /\ UNCHANGED <<state, network, node, dynamic_attribute_indices, store>>

\* line 49 of a call past line 48: the registry assignment
set_index_step(call) ==
    /\ call \in adding
    /\ adding' = adding \ {call}
    /\ dynamic_attribute_indices' =
           AddedIndices(dynamic_attribute_indices, call.name, call.index)
    /\ last' = [NoCall EXCEPT !.op = "add", !.name = call.name,
                              !.index = call.index]
    /\ UNCHANGED <<state, network, node, attributes, store>>

(***************************************************************************)
(* stringValueToVarType, stringValueToWriteType                            *)
(***************************************************************************)
\* the dict of stringValueToVarType: type name -> CmdArgType member
VarTypeTable ==
    ("DevBoolean" :> "CmdArgType.DevBoolean")
    @@ ("DevLong" :> "CmdArgType.DevLong")
    @@ ("DevDouble" :> "CmdArgType.DevDouble")
    @@ ("DevFloat" :> "CmdArgType.DevFloat")
    @@ ("DevString" :> "CmdArgType.DevString")

\* the dict of stringValueToWriteType: mode name -> AttrWriteType member
WriteTypeTable ==
    ("READ" :> "AttrWriteType.READ")
    @@ ("WRITE" :> "AttrWriteType.WRITE")
    @@ ("READ_WRITE" :> "AttrWriteType.READ_WRITE")
    @@ ("READ_WITH_WRITE" :> "AttrWriteType.READ_WITH_WRITE")

\* stringValueToVarType with a lookup that has no default: the KeyError of
\* the dict is what the caller gets
stringValueToVarTypeNoDefault(variable_type_name) ==
    IF variable_type_name \in DOMAIN VarTypeTable
    THEN VarTypeTable[variable_type_name]
    ELSE "KeyError"

\* dict.get(variable_type_name, CmdArgType.DevString)
stringValueToVarType(variable_type_name) ==
    IF variable_type_name \in DOMAIN VarTypeTable
    THEN VarTypeTable[variable_type_name]
    ELSE "CmdArgType.DevString"

\* dict.get(write_type_name, AttrWriteType.READ_WRITE)
stringValueToWriteType(write_type_name) ==
    IF write_type_name \in DOMAIN WriteTypeTable
    THEN WriteTypeTable[write_type_name]
    ELSE "AttrWriteType.READ_WRITE"

\* a call of stringValueToVarType(variable_type_name) and what it returns
call_stringValueToVarType(variable_type_name) ==
    /\ last' = [NoCall EXCEPT !.op = "varType",
                              !.type_name = variable_type_name,
                              !.ret = stringValueToVarType(variable_type_name)]
    /\ UNCHANGED <<adding, state, network, node, dynamic_attribute_indices,
                   attributes, store>>

\* a call of stringValueToWriteType(write_type_name) and what it returns
call_stringValueToWriteType(write_type_name) ==
    /\ last' = [NoCall EXCEPT !.op = "writeType",
                              !.type_name = write_type_name,
                              !.ret = stringValueToWriteType(write_type_name)]
    /\ UNCHANGED <<adding, state, network, node, dynamic_attribute_indices,
                   attributes, store>>

(***************************************************************************)
(* sdo, read_dynamic_attr, write_dynamic_attr                              *)
(***************************************************************************)
\* the exception, if any, that ends sdo(name) and the indexing of the node:
\* self.node.sdo is evaluated before int() in the one-line branches and
\* after it in the sub-index branch
AccessError(kind, reg, name) ==
    LET r == sdo(reg, name)
    IN  IF name \notin DOMAIN reg THEN "KeyError"
        ELSE IF kind = "None"
                /\ ~(StartsWith0x(reg[name]) /\ ContainsHash(reg[name]))
             THEN "AttributeError"
             ELSE IF ~r.ok THEN r.err ELSE NodeGetItem(kind, r.path).err

\* a direct call of sdo(name): the lookup issued on the node
sdo_call(name) ==
    /\ last' = Obs("sdo", name, NoneVal,
                   AccessError(node, dynamic_attribute_indices, name),
                   sdo(dynamic_attribute_indices, name))
    /\ UNCHANGED <<adding, state, network, node, dynamic_attribute_indices,
                   attributes, store>>

AccessCell(kind, reg, name) == NodeGetItem(kind, sdo(reg, name).path).cell

\* what read_dynamic_attr(name) ends with: the exception raised, or the
\* raw value handed to attr.set_value
ReadResult(kind, st, reg, name) ==
    LET e == AccessError(kind, reg, name)
    IN  IF e # "" THEN [exc |-> e, value |-> NoneVal]
        ELSE LET g == RawGet(kind, st, AccessCell(kind, reg, name))
             IN  [exc |-> g.err, value |-> g.value]

read_dynamic_attr(name) ==
    LET r == ReadResult(node, store, dynamic_attribute_indices, name)
    IN  /\ last' = Obs("read", name, r.value, r.exc,
                       sdo(dynamic_attribute_indices, name))
        /\ UNCHANGED <<adding, state, network, node, dynamic_attribute_indices,
                       attributes, store>>

write_dynamic_attr(name, value) ==
    LET r == sdo(dynamic_attribute_indices, name)
        e == AccessError(node, dynamic_attribute_indices, name)
    IN  /\ last' = Obs("write", name, value, e, r)
        /\ store' = IF e # "" THEN store
                    ELSE Put(store,
                           AccessCell(node, dynamic_attribute_indices, name),
                           value)
        /\ UNCHANGED <<adding, state, network, node, dynamic_attribute_indices,
                       attributes>>

(***************************************************************************)
(* init_device                                                             *)
(***************************************************************************)
\* the exception attr_data["name"] / attr_data["register"] raises
ItemError(item) ==
    CASE item.shape = "ok" -> ""
      [] item.shape = "notobject" -> "TypeError"
      [] OTHER -> "KeyError"

\* the for loop over the decoded list: each element is registered in turn
\* and the first malformed element ends the loop with its exception
RECURSIVE AddAll(_, _, _)
AddAll(reg, attrs, items) ==
    IF Len(items) = 0 THEN [reg |-> reg, attrs |-> attrs, exc |-> ""]
    ELSE IF ItemError(Head(items)) # ""
         THEN [reg |-> reg, attrs |-> attrs, exc |-> ItemError(Head(items))]
         ELSE AddAll(AddedIndices(reg, Head(items).name, Head(items).register),
                     AddedAttributes(attrs, Head(items).name,
                                     Head(items).register,
                                     Head(items).min_value,
                                     Head(items).max_value),
                     Tail(items))

\* what the block under "if self.init_dynamic_attributes" leaves behind
LoadAttributes(reg, attrs, payload) ==
    CASE payload.kind = "empty" -> [reg |-> reg, attrs |-> attrs, exc |-> ""]
      [] payload.kind = "undecodable" ->
             [reg |-> reg, attrs |-> attrs, exc |-> "JSONDecodeError"]
      [] payload.kind = "notlist" ->
             [reg |-> reg, attrs |-> attrs, exc |-> "TypeError"]
      [] OTHER -> AddAll(reg, attrs, payload.items)

\* the exception that leaves init_device
InitError(connectOk, nodeOk, reg, attrs, payload) ==
    IF ~connectOk THEN "CanError"
    ELSE IF ~nodeOk THEN "NodeError"
    ELSE LoadAttributes(reg, attrs, payload).exc

\* the state init_device leaves the device in
InitState(exc) == IF exc = "" THEN "ON" ELSE "INIT"

init_device(connectOk, nodeOk, payload) ==
    LET exc == InitError(connectOk, nodeOk, dynamic_attribute_indices,
                         attributes, payload)
        loaded == LoadAttributes(dynamic_attribute_indices, attributes,
                                 payload)
        built == connectOk /\ nodeOk
    IN  /\ state' = InitState(exc)
        /\ network' = IF connectOk THEN "connected" ELSE "unconnected"
        /\ node' = IF built THEN "remote" ELSE node
        /\ store' = IF built /\ node # "remote" THEN EmptyMap ELSE store
        /\ dynamic_attribute_indices' =
               IF built THEN loaded.reg ELSE dynamic_attribute_indices
        /\ attributes' = IF built THEN loaded.attrs ELSE attributes
        /\ last' = [NoCall EXCEPT !.op = "init", !.connectOk = connectOk,
                                   !.nodeOk = nodeOk, !.payload = payload,
                                   !.exc = exc]
        /\ UNCHANGED adding

(***************************************************************************)
(* delete_device                                                           *)
(***************************************************************************)
\* the class defines no delete_device: the call runs the framework's
\* inherited method, which touches neither the network nor the node
delete_device ==
    /\ last' = [NoCall EXCEPT !.op = "delete"]
    /\ UNCHANGED <<adding, state, network, node, dynamic_attribute_indices,
                   attributes, store>>

(***************************************************************************)
(* Inputs                                                                  *)
(***************************************************************************)
Prefix0x == <<"0", "x">>

\* the address strings the resolver is run on: every string over the
\* alphabet up to MaxLen, every "0x<numeral>" and every "0x<main>#<sub>"
\* with or without "0x" before the sub-index numeral
Addresses ==
    (Str(MaxLen, Alphabet) \ {<<>>})
    \cup {Prefix0x \o m : m \in Str(MaxMainLen, NumeralChars)}
    \cup {Prefix0x \o m \o <<"#">> \o p \o t :
            m \in Str(MaxMainLen, NumeralChars),
            p \in {<<>>, Prefix0x},
            t \in Str(MaxSubLen, NumeralChars)}

\* the addresses attributes are read and written through: a member of the
\* record spelled in two ways, a hexadecimal, a decimal and a named address,
\* and a malformed hexadecimal address
RWAddrs ==
    { <<"0", "x", "1", "#", "1">>, <<"0", "x", "0", "1", "#", "1">>,
      <<"0", "x", "1", "0">>, <<"1", "0">>, <<"z">>, <<"0", "x", "z">> }

\* addresses of two objects, and "0x" addresses with a malformed numeral: as
\* the whole address, as the index and as the sub-index
ErrAddrs ==
    { <<"0", "x", "1", "0">>, <<"z">>, <<"0", "x", "z">>,
      <<"0", "x", "z", "#", "1">>, <<"0", "x", "1", "#", "z">> }

\* the addresses and limit strings add_dynamic_attribute is called with
AddAddrs == {<<>>, <<"0", "x", "1", "0">>, <<"z">>}
Limits == {"", "0", "5"}

\* the elements and values of init_dynamic_attributes
InitAddrs == {<<>>, <<"z">>}

Items ==
    {Item("ok", n, a, "", "") : n \in Names, a \in InitAddrs}
    \cup {Item(sh, "", <<>>, "", "") :
            sh \in {"noname", "noregister", "notobject"}}

Payloads ==
    {Payload(k, <<>>) : k \in {"empty", "undecodable", "notlist"}}
    \cup {Payload("list", l) : l \in UNION {[1..k -> Items] : k \in 0..MaxList}}

\* the strings the conversions are called with: the recognised names of
\* both, the empty string, and strings that are no key of either dict
TypeStrings ==
    DOMAIN VarTypeTable \cup DOMAIN WriteTypeTable
    \cup { "", "DevInvalid", "BOGUS", "devlong", "DEVLONG", "DevShort",
           "DevULong", "DevEnum", "Dev", "DevString ", "read", "Read_Write",
           "READ WRITE", "READ_", "CmdArgType.DevLong", "AttrWriteType.READ" }

\* the values of init_dynamic_attributes a device is started with over its
\* life: none, an undecodable one, and lists with one attribute, with two,
\* and with one followed by an element that has no "name"
LifePayloads ==
    { Payload("empty", <<>>), Payload("undecodable", <<>>),
      Payload("list", <<Item("ok", "n1", <<"z">>, "", "")>>),
      Payload("list", <<Item("ok", "n1", <<"z">>, "", ""),
                        Item("ok", "n2", <<"z">>, "", "")>>),
      Payload("list", <<Item("ok", "n1", <<"z">>, "", ""),
                        Item("noname", "", <<>>, "", "")>>) }

(***************************************************************************)
(* Specifications                                                          *)
(***************************************************************************)
\* registration, reads and writes of attributes
AddAttr == \E n \in Names, a \in RWAddrs : add_dynamic_attribute(n, a, "", "")
Read == \E n \in Names : read_dynamic_attr(n)
Write == \E n \in Names, v \in Values : write_dynamic_attr(n, v)

Next == AddAttr \/ Read \/ Write

Spec == Init /\ [][Next]_vars

\* the address resolution of sdo() over the enumerated address strings: one
\* attribute has been registered with any of them on a fresh device, and
\* sdo() is called for it
InitSdo ==
    /\ state = "UNKNOWN"
    /\ network = "None"
    /\ node \in {"None", "mock", "remote"}
    /\ \E a \in Addresses :
          /\ dynamic_attribute_indices = AddedIndices(EmptyMap, "n1", a)
          /\ attributes = AddedAttributes(EmptyMap, "n1", a, "", "")
          /\ last = [NoCall EXCEPT !.op = "add", !.name = "n1", !.index = a]
    /\ store = EmptyMap
    /\ adding = {}

SdoCall == sdo_call("n1")

NextSdo == SdoCall

SpecSdo == InitSdo /\ [][NextSdo]_vars

\* the add_dynamic_attribute command with its limits
AddCommand ==
    \E n \in Names, a \in AddAddrs, mn \in Limits, mx \in Limits :
        add_dynamic_attribute(n, a, mn, mx)

NextAdd == AddCommand

SpecAdd == Init /\ [][NextAdd]_vars

\* startup
InitDevice ==
    \E c \in BOOLEAN, d \in BOOLEAN, p \in Payloads : init_device(c, d, p)

NextInit == InitDevice

SpecInit == Init /\ [][NextInit]_vars

\* registration, reads and writes through well-formed and malformed addresses
AddErr == \E n \in Names, a \in ErrAddrs : add_dynamic_attribute(n, a, "", "")

NextAccess == AddErr \/ Read \/ Write

SpecAccess == Init /\ [][NextAccess]_vars

\* two devices of the class in one process: this device's registrations,
\* reads and writes, and the registrations of the other device
OwnAdd == \E n \in Names, a \in AddAddrs : add_dynamic_attribute(n, a, "", "")
PeerAdd == \E n \in Names, a \in AddAddrs : peer_add_dynamic_attribute(n, a)

NextTwo == OwnAdd \/ PeerAdd \/ Read \/ Write

SpecTwo == Init /\ [][NextTwo]_vars

\* add_dynamic_attribute calls running concurrently with each other and
\* with reads and writes
AddAttributeStep ==
    \E n \in Names, a \in AddAddrs, ok \in BOOLEAN :
        add_attribute_step(n, a, ok)
SetIndexStep == \E c \in adding : set_index_step(c)

NextConc == AddAttributeStep \/ SetIndexStep \/ Read \/ Write

SpecConc == Init /\ [][NextConc]_vars

\* the two conversions over the recognised names and other strings
VarType == \E s \in TypeStrings : call_stringValueToVarType(s)
WriteType == \E s \in TypeStrings : call_stringValueToWriteType(s)

NextConv == VarType \/ WriteType

SpecConv == Init /\ [][NextConv]_vars

\* the life of a device: startup, reads and writes, shutdown
InitLife ==
    \E c \in BOOLEAN, k \in BOOLEAN, p \in LifePayloads : init_device(c, k, p)

DeleteDevice == delete_device

NextLife == InitLife \/ Read \/ Write \/ DeleteDevice

SpecLife == Init /\ [][NextLife]_vars

(***************************************************************************)
(* Properties of the address resolution (SpecSdo)                          *)
(***************************************************************************)
\* a non-empty string of hexadecimal digits
IsHexNumeral(s) ==
    Len(s) > 0 /\ \A i \in 1..Len(s) : HexDigitVal(s[i]) >= 0

HashCount(s) == Cardinality({i \in 1..Len(s) : s[i] = "#"})

\* the address has the form "0x<hex>#<hex>" or "0x<hex>#0x<hex>"
IsHexSubForm(a) ==
    /\ StartsWith0x(a)
    /\ HashCount(a) = 1
    /\ IsHexNumeral(HexBody(SplitHash(a)[1]))
    /\ IsHexNumeral(HexBody(SplitHash(a)[2]))

\* the address has the form "0x<hex>"
IsHexForm(a) ==
    StartsWith0x(a) /\ ~ContainsHash(a) /\ IsHexNumeral(HexBody(a))

\* sdo() has just been called, on a device that holds a node, for a
\* registered attribute; its address is the registry entry
SdoCalled ==
    /\ last.op = "sdo"
    /\ node # "None"
    /\ last.name \in DOMAIN dynamic_attribute_indices

CalledAddr == dynamic_attribute_indices[last.name]

\* C1: for a registered address of the form "0x<hex>#<hex>" (sub-index with
\* or without "0x"), sdo() looks the node up at two levels, first with the
\* integer value of the hexadecimal index and then with the integer value of
\* the hexadecimal sub-index; the first key is never the unparsed string.
C1_HexSubIntegerKeys ==
    (SdoCalled /\ IsHexSubForm(CalledAddr)) =>
        /\ last.res.ok
        /\ last.res.path =
               <<IntKey(IntHex(SplitHash(CalledAddr)[1])),
                 IntKey(IntHex(SplitHash(CalledAddr)[2]))>>

\* C2: for an address that starts with "0x", sdo() either fails with an
\* error or resolves by the hexadecimal rule the string selects (index and
\* sub-index when it contains "#", plain index otherwise); it never issues a
\* lookup by the decimal rule, nor one keyed by the address string itself.
C2_HexNeverFallsThrough ==
    (SdoCalled /\ StartsWith0x(CalledAddr)) =>
        \/ ~last.res.ok /\ last.res.err = "ValueError"
        \/ /\ last.res.ok
           /\ last.res.rule =
                  (IF ContainsHash(CalledAddr) THEN "hexsub" ELSE "hex")
           /\ Len(last.res.path) =
                  (IF ContainsHash(CalledAddr) THEN 2 ELSE 1)
           /\ last.res.path[Len(last.res.path)] =
                  IntKey(IntHex(SplitHash(CalledAddr)[Len(last.res.path)]))
           /\ \A i \in 1..Len(last.res.path) :
                  last.res.path[i] # StrKey(CalledAddr)

\* C2 witness: sdo() was called for a malformed "0x" address and for nothing
\* else than an error
C2_Witness ==
    /\ SdoCalled
    /\ StartsWith0x(CalledAddr)
    /\ ~ContainsHash(CalledAddr)
    /\ ~IsHexForm(CalledAddr)
    /\ last.exc = "ValueError"

\* C3 as stated: for a registered address without "#", "0x<hex>" is looked
\* up with the value of the hexadecimal numeral, an all-digit address with
\* its decimal value, and any other address with the address string itself.
C3_AsStated ==
    (SdoCalled /\ ~ContainsHash(CalledAddr)) =>
        /\ last.res.ok
        /\ last.res.path =
               (IF IsHexForm(CalledAddr)
                THEN <<IntKey(IntHex(CalledAddr))>>
                ELSE IF IsDigitStr(CalledAddr)
                     THEN <<IntKey(IntDec(CalledAddr))>>
                     ELSE <<StrKey(CalledAddr)>>)

\* C3 amended: for a registered address without "#", "0x<hex>" is looked up
\* with the value of the hexadecimal numeral, an all-digit address with its
\* decimal value, and any other address that does not start with "0x" with
\* the address string itself.
C3_OneLevelLookups ==
    (SdoCalled /\ ~ContainsHash(CalledAddr)
       /\ (IsHexForm(CalledAddr) \/ ~StartsWith0x(CalledAddr))) =>
        /\ last.res.ok
        /\ Len(last.res.path) = 1
        /\ last.res.path[1] =
               (IF IsHexForm(CalledAddr) THEN IntKey(IntHex(CalledAddr))
                ELSE IF IsDigitStr(CalledAddr)
                     THEN IntKey(IntDec(CalledAddr))
                     ELSE StrKey(CalledAddr))

\* C3 witness: sdo() resolved the all-digit address "10" to the key 10
C3_Witness ==
    /\ SdoCalled
    /\ CalledAddr = <<"1", "0">>
    /\ last.res.path = <<IntKey(10)>>

(***************************************************************************)
(* Properties of reads and writes (Spec)                                   *)
(***************************************************************************)
\* the address has one of the four forms: index and sub-index, hexadecimal
\* index, decimal index, name
IsAddressForm(a) == IsHexSubForm(a) \/ IsHexForm(a) \/ ~StartsWith0x(a)

\* the keys an address of one of the four forms stands for
AddressKeys(a) ==
    IF IsHexSubForm(a)
    THEN <<IntKey(IntHex(SplitHash(a)[1])), IntKey(IntHex(SplitHash(a)[2]))>>
    ELSE IF IsHexForm(a) THEN <<IntKey(IntHex(a))>>
         ELSE IF IsDigitStr(a) THEN <<IntKey(IntDec(a))>>
              ELSE <<StrKey(a)>>

\* the object of the node at the (index, sub-index) an address stands for
AddressObject(a) == NodeGetItem(node, AddressKeys(a))

\* the attribute is registered with an address of one of the four forms
\* that names an object of the node
Addressable(n) ==
    /\ n \in DOMAIN dynamic_attribute_indices
    /\ IsAddressForm(dynamic_attribute_indices[n])
    /\ AddressObject(dynamic_attribute_indices[n]).ok

\* C4: for a registered attribute with an address of any of the four forms,
\* write_dynamic_attr(name, v) directly followed by read_dynamic_attr(name)
\* sets the attribute value to v.
C4_WriteThenRead ==
    [][(/\ last.op = "write"
        /\ Addressable(last.name)
        /\ last'.op = "read"
        /\ last'.name = last.name)
       => (last'.exc = "" /\ last'.value = last.value)]_vars

\* C5: a write through an attribute changes only the object at the
\* attribute's (index, sub-index): afterwards every attribute with the same
\* (index, sub-index) reads the value written, and every attribute with
\* another one reads what it read before.
C5_WriteChangesOnlyItsObject ==
    [][(/\ last'.op = "write"
        /\ last'.exc = ""
        /\ Addressable(last'.name))
       => \A m \in Names :
            Addressable(m) =>
              IF AddressObject(dynamic_attribute_indices[m]).cell =
                 AddressObject(dynamic_attribute_indices[last'.name]).cell
              THEN ReadResult(node', store', dynamic_attribute_indices', m)
                     = [exc |-> "", value |-> last'.value]
              ELSE ReadResult(node', store', dynamic_attribute_indices', m)
                     = ReadResult(node, store, dynamic_attribute_indices, m)
      ]_vars

\* the address enters the "0x" branch of sdo() and is of neither
\* hexadecimal form
MalformedHex(a) == StartsWith0x(a) /\ ~IsHexForm(a) /\ ~IsHexSubForm(a)

\* the call just made failed before any lookup on the node and changed
\* neither the objects, the registry nor the device state
FailedWithoutEffect ==
    /\ last'.exc # ""
    /\ ~last'.res.ok
    /\ last'.op = "read" => last'.value = NoneVal
    /\ store' = store
    /\ dynamic_attribute_indices' = dynamic_attribute_indices
    /\ state' = state

\* C12: a read or write for a name without a registry entry fails with an
\* error to the caller, issues no lookup on the node, sets no attribute
\* value and leaves the registry as it was.
C12_UnknownNameFails ==
    [][(/\ last'.op \in {"read", "write"}
        /\ last'.name \notin DOMAIN dynamic_attribute_indices)
       => FailedWithoutEffect]_vars

\* C12 witness: a write for a name without entry has failed on a device
\* that holds another attribute and a written object
C12_Witness ==
    /\ last.op = "write"
    /\ last.name \notin DOMAIN dynamic_attribute_indices
    /\ last.exc = "KeyError"
    /\ dynamic_attribute_indices # EmptyMap
    /\ store # EmptyMap

\* C13: every read and write of a registered attribute whose address starts
\* with "0x" and has a malformed hexadecimal numeral fails with an error to
\* the caller without a lookup on the node; the registry, the device state
\* and what every other attribute reads are unchanged.
C13_MalformedHexFails ==
    [][(/\ last'.op \in {"read", "write"}
        /\ last'.name \in DOMAIN dynamic_attribute_indices
        /\ MalformedHex(dynamic_attribute_indices[last'.name]))
       => /\ FailedWithoutEffect
          /\ \A m \in Names \ {last'.name} :
                ReadResult(node', store', dynamic_attribute_indices', m)
                  = ReadResult(node, store, dynamic_attribute_indices, m)
      ]_vars

\* C13 witness: a write through a malformed sub-index address has failed
\* while another attribute reads a value written before
C13_Witness ==
    /\ last.op = "write"
    /\ last.name \in DOMAIN dynamic_attribute_indices
    /\ dynamic_attribute_indices[last.name] = <<"0", "x", "1", "#", "z">>
    /\ last.exc = "ValueError"
    /\ \E m \in Names \ {last.name} :
          /\ Addressable(m)
          /\ ReadResult(node, store, dynamic_attribute_indices, m).exc = ""
          /\ ReadResult(node, store, dynamic_attribute_indices, m).value
                \in Values

\* C14: add_dynamic_attribute for a name that has an entry, with a new
\* non-empty address, overwrites the entry: the number of entries is
\* unchanged, the other entries are unchanged, and sdo(name) resolves the
\* new address from then on.
C14_ReRegisterOverwrites ==
    [][(/\ last'.op = "add"
        /\ last'.index # <<>>
        /\ last'.name \in DOMAIN dynamic_attribute_indices)
       => /\ Cardinality(DOMAIN dynamic_attribute_indices') =
                 Cardinality(DOMAIN dynamic_attribute_indices)
          /\ dynamic_attribute_indices'[last'.name] = last'.index
          /\ sdo(dynamic_attribute_indices', last'.name) =
                 ResolveIndex(last'.index)
          /\ \A m \in DOMAIN dynamic_attribute_indices \ {last'.name} :
                dynamic_attribute_indices'[m] = dynamic_attribute_indices[m]
      ]_vars

\* C14 witness: the only name ever registered has been registered again;
\* the object written through its earlier address is not the one its entry
\* names now
C14_Witness ==
    /\ last.op = "add"
    /\ DOMAIN dynamic_attribute_indices = {last.name}
    /\ dynamic_attribute_indices[last.name] = last.index
    /\ node = "mock"
    /\ store # EmptyMap
    /\ AccessError(node, dynamic_attribute_indices, last.name) = ""
    /\ AccessCell(node, dynamic_attribute_indices, last.name)
          \notin DOMAIN store

(***************************************************************************)
(* Properties of add_dynamic_attribute (SpecAdd)                           *)
(***************************************************************************)
\* C6: add_dynamic_attribute(name, "") changes nothing: no attribute is
\* handed to the framework, no registry entry is created, and an entry that
\* exists for the name, like the number of entries, stays as it was.
C6_EmptyAddressNoOp ==
    [][(last'.op = "add" /\ last'.index = <<>>)
       => /\ dynamic_attribute_indices' = dynamic_attribute_indices
          /\ attributes' = attributes
          /\ Cardinality(DOMAIN dynamic_attribute_indices') =
                 Cardinality(DOMAIN dynamic_attribute_indices)]_vars

\* C6 witness: the command was called with an empty address for a name that
\* has a registry entry
C6_Witness ==
    /\ last.op = "add"
    /\ last.index = <<>>
    /\ last.name \in DOMAIN dynamic_attribute_indices
    /\ last.name \in DOMAIN attributes

\* C7: the minimum and the maximum are applied to the attribute only when
\* both strings are non-empty and differ: then both are applied, and in
\* every other case (equal, minimum alone, maximum alone) neither is.
C7_LimitsOnlyTogether ==
    (last.op = "add" /\ last.index # <<>>) =>
        /\ last.name \in DOMAIN attributes
        /\ attributes[last.name] =
               (IF last.min_value # "" /\ last.max_value # ""
                   /\ last.min_value # last.max_value
                THEN [min_value |-> last.min_value,
                      max_value |-> last.max_value]
                ELSE [min_value |-> "", max_value |-> ""])

(***************************************************************************)
(* Properties of init_device (SpecInit)                                    *)
(***************************************************************************)
\* init_device has just run with the network and the node coming up
InitRanConnected == last.op = "init" /\ last.connectOk /\ last.nodeOk

\* the position of the first malformed element of a list; 0 when none is
FirstMalformed(items) ==
    IF \A i \in 1..Len(items) : items[i].shape = "ok" THEN 0
    ELSE CHOOSE i \in 1..Len(items) :
             /\ items[i].shape # "ok"
             /\ \A j \in 1..(i - 1) : items[j].shape = "ok"

\* the attribute list decodes but is not a list of well-formed descriptors
IsMalformedStructure(payload) ==
    \/ payload.kind = "notlist"
    \/ payload.kind = "list" /\ FirstMalformed(payload.items) # 0

\* C8: when the attribute list is not decodable, no exception leaves
\* init_device and the device ends in the ON state.
C8_DecodeErrorNotRaised ==
    (InitRanConnected /\ last.payload.kind = "undecodable") =>
        (last.exc = "" /\ state = "ON")

\* C9: when the attribute list decodes but is structurally malformed,
\* init_device ends in the ON state without raising, and every well-formed
\* descriptor with a non-empty address before the malformed element is in
\* the registry.
C9_MalformedListNotFatal ==
    (InitRanConnected /\ IsMalformedStructure(last.payload)) =>
        /\ last.exc = ""
        /\ state = "ON"
        /\ \A i \in 1..Len(last.payload.items) :
              (i < FirstMalformed(last.payload.items)
                 /\ last.payload.items[i].register # <<>>)
              => last.payload.items[i].name
                     \in DOMAIN dynamic_attribute_indices

\* C10: when the connect or the construction of the node fails, the device
\* goes to FAULT and no exception leaves init_device; the device is never in
\* INIT once init_device has ended.
C10_StartupFailureFaults ==
    /\ (last.op = "init" /\ (~last.connectOk \/ ~last.nodeOk)) =>
           (state = "FAULT" /\ last.exc = "")
    /\ last.op = "init" => state # "INIT"

(***************************************************************************)
(* Properties of two devices in one process (SpecTwo)                      *)
(***************************************************************************)
\* C17: add_dynamic_attribute on another device instance never creates,
\* overwrites or changes an entry this device's reads and writes see: the
\* registry this device reads, and what each of its attributes reads, are
\* as before.
C17_RegistryPerInstance ==
    [][last'.op = "peer_add"
       => /\ dynamic_attribute_indices' = dynamic_attribute_indices
          /\ \A n \in Names :
                ReadResult(node', store', dynamic_attribute_indices', n)
                  = ReadResult(node, store, dynamic_attribute_indices, n)
      ]_vars

\* C20: no read or write callback of a dynamic attribute is dispatched
\* while the device state is INIT: the attributes init_device registers are
\* read and written only once init_device has completed and left INIT.
C20_NoDispatchWhileInit ==
    (last.op \in {"read", "write"} /\ last.name \in DOMAIN attributes)
       => state # "INIT"

(***************************************************************************)
(* Properties of concurrent registration (SpecConc)                        *)
(***************************************************************************)
\* an add_dynamic_attribute call for the name is between line 48 and line 49
InFlight(n) == \E c \in adding : c.name = n

\* C18 as stated: in every reachable state every name the framework holds
\* callbacks for has a registry entry, and no read or write dispatched for
\* such a name fails for want of an entry.
C18_AsStated ==
    /\ \A n \in DOMAIN attributes : n \in DOMAIN dynamic_attribute_indices
    /\ (last.op \in {"read", "write"} /\ last.name \in DOMAIN attributes)
          => last.exc # "KeyError"

\* C18: every name the framework holds callbacks for has a registry entry
\* unless a call registering it is between add_attribute and the registry
\* assignment, and a read or write dispatched for such a name outside that
\* window never fails for want of an entry.
C18_CallbacksHaveEntry ==
    /\ \A n \in DOMAIN attributes :
          n \in DOMAIN dynamic_attribute_indices \/ InFlight(n)
    /\ (/\ last.op \in {"read", "write"}
        /\ last.name \in DOMAIN attributes
        /\ ~InFlight(last.name))
          => last.exc # "KeyError"

\* C18 witness: a read dispatched for a name whose registration is between
\* the two steps has failed for want of an entry
C18_Witness ==
    /\ last.op = "read"
    /\ last.exc = "KeyError"
    /\ last.name \in DOMAIN attributes
    /\ last.name \notin DOMAIN dynamic_attribute_indices
    /\ InFlight(last.name)

\* C19: the registry changes only by the assignment of a call whose
\* add_attribute has returned; a call whose add_attribute raises leaves the
\* registry as it was; no name has an entry that the framework never
\* accepted.
C19_RegistryAfterFramework ==
    [][/\ (last'.op = "add_attribute" /\ last'.exc # "")
            => dynamic_attribute_indices' = dynamic_attribute_indices
       /\ dynamic_attribute_indices' # dynamic_attribute_indices
            => \E c \in adding :
                 /\ c \notin adding'
                 /\ c.name \in DOMAIN attributes
                 /\ dynamic_attribute_indices' =
                        Put(dynamic_attribute_indices, c.name, c.index)
       /\ DOMAIN dynamic_attribute_indices' \subseteq DOMAIN attributes'
      ]_vars

\* C19 witness: add_attribute has raised for a name without entry while the
\* other name has one; the name still has no entry
C19_Witness ==
    /\ last.op = "add_attribute"
    /\ last.exc = "DevFailed"
    /\ last.name \notin DOMAIN dynamic_attribute_indices
    /\ last.name \notin DOMAIN attributes
    /\ dynamic_attribute_indices # EmptyMap

\* C21: when registrations interleave with each other and with reads and
\* writes, no update is lost or misdirected: the registry changes only when
\* a registration stores its entry, that step maps the name to the address
\* of that call and leaves every other entry as it was, and every read and
\* write of a registered name resolves the address of that name's entry.
C21_NoLostRegistration ==
    [][/\ last'.op = "add"
            => /\ dynamic_attribute_indices'[last'.name] = last'.index
               /\ DOMAIN dynamic_attribute_indices' =
                      DOMAIN dynamic_attribute_indices \cup {last'.name}
               /\ \A m \in DOMAIN dynamic_attribute_indices \ {last'.name} :
                     dynamic_attribute_indices'[m] =
                         dynamic_attribute_indices[m]
       /\ last'.op # "add"
            => dynamic_attribute_indices' = dynamic_attribute_indices
       /\ (/\ last'.op \in {"read", "write"}
           /\ last'.name \in DOMAIN dynamic_attribute_indices)
            => last'.res = ResolveIndex(dynamic_attribute_indices[last'.name])
      ]_vars

\* C21 witness: of two registrations of distinct names in progress at the
\* same time one has stored its entry, the other, of a new name, has not
\* yet, and the name registered resolves its own address
C21_Witness ==
    /\ last.op = "add"
    /\ last.name \in DOMAIN dynamic_attribute_indices
    /\ dynamic_attribute_indices[last.name] = last.index
    /\ \E c \in adding :
          /\ c.name # last.name
          /\ c.name \notin DOMAIN dynamic_attribute_indices
          /\ c.index # last.index
    /\ sdo(dynamic_attribute_indices, last.name) = ResolveIndex(last.index)

(***************************************************************************)
(* Properties of the conversions (SpecConv)                                *)
(***************************************************************************)
\* C15: stringValueToVarType and stringValueToWriteType never raise; each of
\* the five type names and four write-mode names yields its own constant,
\* and every other string yields DevString and READ_WRITE respectively.
C15_ConversionsTotal ==
    /\ last.op = "varType" =>
         /\ last.exc = ""
         /\ last.ret =
              CASE last.type_name = "DevBoolean" -> "CmdArgType.DevBoolean"
                [] last.type_name = "DevLong" -> "CmdArgType.DevLong"
                [] last.type_name = "DevDouble" -> "CmdArgType.DevDouble"
                [] last.type_name = "DevFloat" -> "CmdArgType.DevFloat"
                [] OTHER -> "CmdArgType.DevString"
    /\ last.op = "writeType" =>
         /\ last.exc = ""
         /\ last.ret =
              CASE last.type_name = "READ" -> "AttrWriteType.READ"
                [] last.type_name = "WRITE" -> "AttrWriteType.WRITE"
                [] last.type_name = "READ_WITH_WRITE"
                     -> "AttrWriteType.READ_WITH_WRITE"
                [] OTHER -> "AttrWriteType.READ_WRITE"

\* C15 witness: stringValueToVarType has been called with a string that is
\* no type name and has returned
C15_Witness ==
    /\ last.op = "varType"
    /\ last.type_name \notin {"DevBoolean", "DevLong", "DevDouble",
                              "DevFloat", "DevString"}
    /\ last.ret = "CmdArgType.DevString"

(***************************************************************************)
(* Properties of the life of a device (SpecLife)                           *)
(***************************************************************************)
\* C11: delete_device disconnects the network if one is connected and
\* leaves the network and the node reference unset, on the first call, on a
\* second call and on an instance that was never connected.
C11_ShutdownReleases ==
    last.op = "delete" => (network = "None" /\ node = "None")

====
